---- MODULE Spec2Model ----
(***************************************************************************)
(* The fan-fiction data layer: ten actions over the Fandoms,               *)
(* FanficStories and FanficChapters tables.  Every database statement is   *)
(* one atomic step; a handler that awaits several statements is several    *)
(* steps, so that the statements of concurrent requests interleave.        *)
(***************************************************************************)
EXTENDS Integers, FiniteSets, Sequences, TLC

VARIABLES
  Fandoms,         \* the Fandoms table: a set of rows
  FanficStories,   \* the FanficStories table: a set of rows
  FanficChapters,  \* the FanficChapters table: a set of rows
  inflight,        \* per request: not yet arrived, suspended at an await, or done
  ret,             \* the response (or thrown error) of the last finished call
  everChapters,    \* history: <<id, storyId>> of every chapter row ever stored
  deleteOk         \* history: successful deleteFanficChapter returns per id

vars == <<Fandoms, FanficStories, FanficChapters, inflight, ret,
          everChapters, deleteOk>>

store == <<Fandoms, FanficStories, FanficChapters>>

-----------------------------------------------------------------------------
(* Bounds and value universes *)

\* new Date() returns a time from 0, the time of the seeded rows, to MaxClock.
MaxClock == 1

\* A request input sets at most MaxOptional fields besides its keys and its
\* required field.
MaxOptional == 1

Null == "<null>"
Anonymous == "<anonymous>"
Users == {"u1", "u2"}
Callers == Users \cup {Anonymous}
\* the requests of a run, each one call of one operation by one caller
Requests == {"r1", "r2"}

\* crypto.randomUUID(): identifiers not yet used by any row.  A run mints at
\* most one new row per table; an insert that finds no identifier left does
\* not happen.
NewFandomIds == <<"f5">>
NewStoryIds == <<"s2">>
NewChapterIds == <<"c2">>
ChapterIds == {"c1", "c2"}

NoInput == [k \in {} |-> ""]
New == [op |-> "new"]
Done == [op |-> "done"]
NoRet == [op |-> "none", user |-> Anonymous, key |-> NoInput, code |-> "none", rows |-> {}]

-----------------------------------------------------------------------------
(* JavaScript and zod helpers *)

Has(input, k) == k \in DOMAIN input

\* JS truthiness of a string-or-null value
Truthy(v) == v # Null /\ v # ""

\* z.string()
ZString(v) == v # Null

\* z.string().min(1)
ZStringMin1(v) == v # Null /\ v # ""

\* z.string().optional(), z.string().min(1).optional(), z.number().int().optional()
OptString(input, k) == Has(input, k) => ZString(input[k])
OptStringMin1(input, k) == Has(input, k) => ZStringMin1(input[k])
OptInt(input, k) == Has(input, k) => input[k] \in Int

\* a column given undefined on insert is stored as NULL
OrNull(input, k) == IF Has(input, k) THEN input[k] ELSE Null

\* all extensions of the records of R by an optional field k with a value of Vs
Ext(R, k, Vs) == R \cup {r @@ (k :> v) : r \in R, v \in Vs}

\* the inputs of R that set at most MaxOptional fields besides those of fixed
AtMost(R, fixed) == {i \in R : Cardinality(DOMAIN i \ fixed) <= MaxOptional}

\* the row an input names
Key(input) == [k \in DOMAIN input \cap {"id", "storyId"} |-> input[k]]

First(seq, used) ==
  LET free == {i \in 1..Len(seq) : seq[i] \notin used}
  IN seq[CHOOSE i \in free : \A j \in free : i <= j]

HasFree(seq, used) == \E i \in 1..Len(seq) : seq[i] \notin used

-----------------------------------------------------------------------------
(* Responses *)

Ok(op, user, input, rows) ==
  [op |-> op, user |-> user, key |-> Key(input), code |-> "ok", rows |-> rows]
Err(op, user, input, code) ==
  [op |-> op, user |-> user, key |-> Key(input), code |-> code, rows |-> {}]

-----------------------------------------------------------------------------
(* Queries *)

\* eq(column, value) compiles to column = value, which SQL never finds true
\* of NULL
SqlEq(a, b) == a # Null /\ b # Null /\ a = b

\* const [row] = await db.select()...: the first row, if any
One(rows) == CHOOSE r \in rows : TRUE

requireUser(user) == IF user = Anonymous THEN "UNAUTHORIZED" ELSE "ok"

\* ensureFandomAccessible without the exemption of system fandoms
ensureFandomAccessible_NoSystem(fandomId, userId) ==
  LET found == {f \in Fandoms : SqlEq(f.id, fandomId)}
  IN IF found = {} THEN [code |-> "NOT_FOUND"]
     ELSE LET fandom == One(found)
          IN IF Truthy(fandom.userId) /\ fandom.userId # userId
             THEN [code |-> "FORBIDDEN"]
             ELSE [code |-> "ok", row |-> fandom]

ensureFandomAccessible(fandomId, userId) ==
  LET found == {f \in Fandoms : SqlEq(f.id, fandomId)}
  IN IF found = {} THEN [code |-> "NOT_FOUND"]
     ELSE LET fandom == One(found)
          IN IF Truthy(fandom.userId) /\ fandom.userId # userId /\ ~fandom.isSystem
             THEN [code |-> "FORBIDDEN"]
             ELSE [code |-> "ok", row |-> fandom]

\* getOwnedStory with the owner missing from the where clause
getOwnedStory_AnyOwner(storyId, userId) ==
  LET found == {s \in FanficStories : SqlEq(s.id, storyId)}
  IN IF found = {} THEN [code |-> "NOT_FOUND"]
     ELSE [code |-> "ok", row |-> One(found)]

getOwnedStory(storyId, userId) ==
  LET found == {s \in FanficStories : SqlEq(s.id, storyId) /\ SqlEq(s.userId, userId)}
  IN IF found = {} THEN [code |-> "NOT_FOUND"]
     ELSE [code |-> "ok", row |-> One(found)]

\* getOwnedChapter with the story missing from the where clause
getOwnedChapter_AnyStory(chapterId, storyId) ==
  LET found == {c \in FanficChapters : SqlEq(c.id, chapterId)}
  IN IF found = {} THEN [code |-> "NOT_FOUND"]
     ELSE [code |-> "ok", row |-> One(found)]

\* the second statement of getOwnedChapter, run once getOwnedStory has returned
getOwnedChapter(chapterId, storyId) ==
  LET found == {c \in FanficChapters : SqlEq(c.id, chapterId) /\ SqlEq(c.storyId, storyId)}
  IN IF found = {} THEN [code |-> "NOT_FOUND"]
     ELSE [code |-> "ok", row |-> One(found)]

\* references: () => Fandoms.columns.id / FanficStories.columns.id.  Whether
\* the store enforces a declared reference is a setting of the store, not of
\* this layer: a statement sees either.
FandomRefOk(enforced, fandomId) ==
  ~enforced \/ fandomId = Null \/ \E f \in Fandoms : f.id = fandomId

StoryRefOk(enforced, storyId) ==
  ~enforced \/ \E s \in FanficStories : s.id = storyId

\* new Date(): the clock never runs backwards, so the time read is no earlier
\* than any time already stored
Now ==
  {t \in 0..MaxClock :
     \A row \in Fandoms \cup FanficStories \cup FanficChapters : row.updatedAt <= t}

-----------------------------------------------------------------------------
(* Request plumbing *)

\* the request arrives; requests are named in their order of arrival
Arrive(p) ==
  /\ inflight[p] = New
  /\ (p = "r2" => inflight["r1"] # New)

\* the handler returns or throws
Finish(p, r) ==
  /\ inflight' = [inflight EXCEPT ![p] = Done]
  /\ ret' = r

\* the handler awaits its next statement
Await(p, op, user, input, pc) ==
  /\ inflight' = [inflight EXCEPT ![p] =
                    [op |-> op, user |-> user, input |-> input, pc |-> pc]]
  /\ ret' = ret

At(p, op, pc) ==
  /\ inflight[p].op = op
  /\ inflight[p].pc = pc

History == <<everChapters, deleteOk>>

-----------------------------------------------------------------------------
(* Fandom operations *)

FandomIdInputs == {"f1", "f2", "f3", "f4", "f5", ""}

listFandoms(p, user) ==
  /\ Arrive(p)
  /\ IF requireUser(user) # "ok"
     THEN Finish(p, Err("listFandoms", user, NoInput, requireUser(user)))
     ELSE Finish(p, Ok("listFandoms", user, NoInput,
            {f \in Fandoms : SqlEq(f.userId, user) \/ SqlEq(f.userId, Null)}))
  /\ UNCHANGED <<store, History>>

CreateFandomInputs ==
  AtMost(Ext(Ext({[name |-> v] : v \in {"", "Marvel"}} \cup {[canonType |-> "film"]},
             "canonType", {"film"}), "description", {"heroes"}), {"name"})

CreateFandomValid(input) ==
  /\ Has(input, "name") /\ ZStringMin1(input.name)
  /\ OptString(input, "canonType")
  /\ OptString(input, "description")

CreateFandomRow(id, user, input, now) ==
  [id |-> id, userId |-> user, name |-> input.name,
   canonType |-> OrNull(input, "canonType"),
   description |-> OrNull(input, "description"),
   isSystem |-> FALSE, createdAt |-> now, updatedAt |-> now]

createFandom(p, user, input) ==
  /\ Arrive(p)
  /\ IF ~CreateFandomValid(input)
     THEN Finish(p, Err("createFandom", user, input, "BAD_REQUEST")) /\ UNCHANGED store
     ELSE IF requireUser(user) # "ok"
     THEN Finish(p, Err("createFandom", user, input, requireUser(user))) /\ UNCHANGED store
     ELSE LET used == {f.id : f \in Fandoms}
          IN /\ HasFree(NewFandomIds, used)
             /\ \E now \in Now :
                  LET fandom == CreateFandomRow(First(NewFandomIds, used), user, input, now)
                  IN /\ Fandoms' = Fandoms \cup {fandom}
                     /\ Finish(p, Ok("createFandom", user, input, {fandom}))
             /\ UNCHANGED <<FanficStories, FanficChapters>>
  /\ UNCHANGED History

UpdateFandomInputs ==
  AtMost(Ext(Ext(Ext({[id |-> i] : i \in FandomIdInputs},
             "name", {"", "Marvel"}), "canonType", {"film"}), "description", {"heroes"}),
         {"id"})

UpdateFandomValid(input) ==
  /\ Has(input, "id") /\ ZStringMin1(input.id)
  /\ OptStringMin1(input, "name")
  /\ OptString(input, "canonType")
  /\ OptString(input, "description")
  /\ (Has(input, "name") \/ Has(input, "canonType") \/ Has(input, "description"))

\* the second guard of the handler, on the fandom the accessibility check returned
UpdateFandomAllowed(fandom, user) ==
  ~(Truthy(fandom.userId) /\ fandom.userId # user)

UpdateFandomSet(row, input, now) ==
  [row EXCEPT
     !.name = IF Has(input, "name") THEN input.name ELSE @,
     !.canonType = IF Has(input, "canonType") THEN input.canonType ELSE @,
     !.description = IF Has(input, "description") THEN input.description ELSE @,
     !.updatedAt = now]

updateFandom(p, user, input) ==
  /\ Arrive(p)
  /\ IF ~UpdateFandomValid(input)
     THEN Finish(p, Err("updateFandom", user, input, "BAD_REQUEST"))
     ELSE IF requireUser(user) # "ok"
     THEN Finish(p, Err("updateFandom", user, input, requireUser(user)))
     ELSE LET access == ensureFandomAccessible(input.id, user)
          IN IF access.code # "ok"
             THEN Finish(p, Err("updateFandom", user, input, access.code))
             ELSE IF ~UpdateFandomAllowed(access.row, user)
             THEN Finish(p, Err("updateFandom", user, input, "FORBIDDEN"))
             ELSE Await(p, "updateFandom", user, input, "update")
  /\ UNCHANGED <<store, History>>

updateFandom_update(p) ==
  /\ At(p, "updateFandom", "update")
  /\ \E now \in Now :
       LET input == inflight[p].input
           hit == {f \in Fandoms : SqlEq(f.id, input.id)}
           updated == {UpdateFandomSet(f, input, now) : f \in hit}
       IN /\ Fandoms' = (Fandoms \ hit) \cup updated
          /\ Finish(p, Ok("updateFandom", inflight[p].user, input, updated))
  /\ UNCHANGED <<FanficStories, FanficChapters, History>>

-----------------------------------------------------------------------------
(* Story operations *)

StoryIdInputs == {"s1", "s2"}
FandomRefInputs == {"", "f1", "f3", "f5", Null}

listFanficStories(p, user) ==
  /\ Arrive(p)
  /\ IF requireUser(user) # "ok"
     THEN Finish(p, Err("listFanficStories", user, NoInput, requireUser(user)))
     ELSE Finish(p, Ok("listFanficStories", user, NoInput,
            {s \in FanficStories : SqlEq(s.userId, user)}))
  /\ UNCHANGED <<store, History>>

\* the optional fields both story inputs share besides fandomId and title
StoryExtras(R) ==
  Ext(Ext(Ext(Ext(Ext(Ext(R, "summary", {"sum"}), "rating", {"PG"}),
      "pairing", {"a/b"}), "tags", {"au"}), "status", {"idea"}), "language", {"en"})

StoryExtrasValid(input) ==
  /\ OptString(input, "summary")
  /\ OptString(input, "rating")
  /\ OptString(input, "pairing")
  /\ OptString(input, "tags")
  /\ OptString(input, "status")
  /\ OptString(input, "language")

CreateFanficStoryInputs ==
  AtMost(StoryExtras(Ext({[title |-> v] : v \in {"", "Sequel"}} \cup {[summary |-> "sum"]},
                         "fandomId", FandomRefInputs)), {"title"})

CreateFanficStoryValid(input) ==
  /\ OptString(input, "fandomId")
  /\ Has(input, "title") /\ ZStringMin1(input.title)
  /\ StoryExtrasValid(input)

CreateFanficStoryRow(id, user, input, now) ==
  [id |-> id, userId |-> user,
   fandomId |-> OrNull(input, "fandomId"),
   title |-> input.title,
   summary |-> OrNull(input, "summary"),
   rating |-> OrNull(input, "rating"),
   pairing |-> OrNull(input, "pairing"),
   tags |-> OrNull(input, "tags"),
   status |-> OrNull(input, "status"),
   language |-> OrNull(input, "language"),
   createdAt |-> now, updatedAt |-> now]

\* db.insert(FanficStories).values(...).returning()
InsertStory(p, user, input, now) ==
  LET used == {s.id : s \in FanficStories}
  IN /\ HasFree(NewStoryIds, used)
     /\ LET story == CreateFanficStoryRow(First(NewStoryIds, used), user, input, now)
        IN \E enforced \in BOOLEAN :
           IF FandomRefOk(enforced, story.fandomId)
           THEN /\ FanficStories' = FanficStories \cup {story}
                /\ Finish(p, Ok("createFanficStory", user, input, {story}))
           ELSE /\ FanficStories' = FanficStories
                /\ Finish(p, Err("createFanficStory", user, input, "INTERNAL_SERVER_ERROR"))
     /\ UNCHANGED <<Fandoms, FanficChapters>>

\* if (input.fandomId)
CreateChecksFandom(input) == Has(input, "fandomId") /\ Truthy(input.fandomId)

createFanficStory(p, user, input) ==
  /\ Arrive(p)
  /\ IF ~CreateFanficStoryValid(input)
     THEN Finish(p, Err("createFanficStory", user, input, "BAD_REQUEST")) /\ UNCHANGED store
     ELSE IF requireUser(user) # "ok"
     THEN Finish(p, Err("createFanficStory", user, input, requireUser(user))) /\ UNCHANGED store
     ELSE IF CreateChecksFandom(input)
     THEN LET access == ensureFandomAccessible(input.fandomId, user)
          IN /\ IF access.code # "ok"
                THEN Finish(p, Err("createFanficStory", user, input, access.code))
                ELSE Await(p, "createFanficStory", user, input, "insert")
             /\ UNCHANGED store
     ELSE \E now \in Now : InsertStory(p, user, input, now)
  /\ UNCHANGED History

createFanficStory_insert(p) ==
  /\ At(p, "createFanficStory", "insert")
  /\ \E now \in Now : InsertStory(p, inflight[p].user, inflight[p].input, now)
  /\ UNCHANGED History

UpdateFanficStoryInputs ==
  AtMost(StoryExtras(Ext(Ext({[id |-> s] : s \in StoryIdInputs},
                             "fandomId", FandomRefInputs), "title", {"", "Sequel"})), {"id"})

UpdateFanficStoryValid(input) ==
  /\ Has(input, "id") /\ ZStringMin1(input.id)
  /\ OptString(input, "fandomId")
  /\ OptString(input, "title")
  /\ StoryExtrasValid(input)
  /\ \/ Has(input, "fandomId") \/ Has(input, "title") \/ Has(input, "summary")
     \/ Has(input, "rating") \/ Has(input, "pairing") \/ Has(input, "tags")
     \/ Has(input, "status") \/ Has(input, "language")

\* if (input.fandomId !== undefined && input.fandomId !== null)
UpdateChecksFandom(input) == Has(input, "fandomId") /\ input.fandomId # Null

\* UpdateFanficStorySet with summary assigned whether or not it was supplied
UpdateFanficStorySet_Overwrite(row, input, now) ==
  [row EXCEPT
     !.fandomId = IF Has(input, "fandomId") THEN input.fandomId ELSE @,
     !.title = IF Has(input, "title") THEN input.title ELSE @,
     !.summary = OrNull(input, "summary"),
     !.rating = IF Has(input, "rating") THEN input.rating ELSE @,
     !.pairing = IF Has(input, "pairing") THEN input.pairing ELSE @,
     !.tags = IF Has(input, "tags") THEN input.tags ELSE @,
     !.status = IF Has(input, "status") THEN input.status ELSE @,
     !.language = IF Has(input, "language") THEN input.language ELSE @,
     !.updatedAt = now]

UpdateFanficStorySet(row, input, now) ==
  [row EXCEPT
     !.fandomId = IF Has(input, "fandomId") THEN input.fandomId ELSE @,
     !.title = IF Has(input, "title") THEN input.title ELSE @,
     !.summary = IF Has(input, "summary") THEN input.summary ELSE @,
     !.rating = IF Has(input, "rating") THEN input.rating ELSE @,
     !.pairing = IF Has(input, "pairing") THEN input.pairing ELSE @,
     !.tags = IF Has(input, "tags") THEN input.tags ELSE @,
     !.status = IF Has(input, "status") THEN input.status ELSE @,
     !.language = IF Has(input, "language") THEN input.language ELSE @,
     !.updatedAt = now]

updateFanficStory(p, user, input) ==
  /\ Arrive(p)
  /\ IF ~UpdateFanficStoryValid(input)
     THEN Finish(p, Err("updateFanficStory", user, input, "BAD_REQUEST"))
     ELSE IF requireUser(user) # "ok"
     THEN Finish(p, Err("updateFanficStory", user, input, requireUser(user)))
     ELSE IF getOwnedStory(input.id, user).code # "ok"
     THEN Finish(p, Err("updateFanficStory", user, input, getOwnedStory(input.id, user).code))
     ELSE IF UpdateChecksFandom(input)
     THEN Await(p, "updateFanficStory", user, input, "ensure")
     ELSE Await(p, "updateFanficStory", user, input, "update")
  /\ UNCHANGED <<store, History>>

updateFanficStory_ensure(p) ==
  /\ At(p, "updateFanficStory", "ensure")
  /\ LET user == inflight[p].user
         input == inflight[p].input
         access == ensureFandomAccessible(input.fandomId, user)
     IN IF access.code # "ok"
        THEN Finish(p, Err("updateFanficStory", user, input, access.code))
        ELSE Await(p, "updateFanficStory", user, input, "update")
  /\ UNCHANGED <<store, History>>

updateFanficStory_update(p) ==
  /\ At(p, "updateFanficStory", "update")
  /\ \E now \in Now, enforced \in BOOLEAN :
     LET input == inflight[p].input
         hit == {s \in FanficStories : SqlEq(s.id, input.id)}
         updated == {UpdateFanficStorySet(s, input, now) : s \in hit}
     IN
        IF \A s \in updated : FandomRefOk(enforced, s.fandomId)
        THEN /\ FanficStories' = (FanficStories \ hit) \cup updated
             /\ Finish(p, Ok("updateFanficStory", inflight[p].user, input, updated))
        ELSE /\ FanficStories' = FanficStories
             /\ Finish(p, Err("updateFanficStory", inflight[p].user, input, "INTERNAL_SERVER_ERROR"))
  /\ UNCHANGED <<Fandoms, FanficChapters, History>>

-----------------------------------------------------------------------------
(* Chapter operations *)

ChapterIdInputs == {"c1", "c2"}

ChapterKeys == {[id |-> c, storyId |-> s] : c \in ChapterIdInputs, s \in StoryIdInputs}

ListFanficChaptersValid(input) ==
  Has(input, "storyId") /\ ZStringMin1(input.storyId)

listFanficChapters(p, user, input) ==
  /\ Arrive(p)
  /\ IF ~ListFanficChaptersValid(input)
     THEN Finish(p, Err("listFanficChapters", user, input, "BAD_REQUEST"))
     ELSE IF requireUser(user) # "ok"
     THEN Finish(p, Err("listFanficChapters", user, input, requireUser(user)))
     ELSE IF getOwnedStory(input.storyId, user).code # "ok"
     THEN Finish(p, Err("listFanficChapters", user, input, getOwnedStory(input.storyId, user).code))
     ELSE Await(p, "listFanficChapters", user, input, "select")
  /\ UNCHANGED <<store, History>>

listFanficChapters_select(p) ==
  /\ At(p, "listFanficChapters", "select")
  /\ LET input == inflight[p].input
     IN Finish(p, Ok("listFanficChapters", inflight[p].user, input,
          {c \in FanficChapters : SqlEq(c.storyId, input.storyId)}))
  /\ UNCHANGED <<store, History>>

CreateFanficChapterInputs ==
  AtMost(Ext(Ext(Ext(Ext({[storyId |-> s] : s \in StoryIdInputs \cup {""}},
                         "content", {"", "Once"}), "orderIndex", {2}),
                 "title", {"One"}), "notes", {"wip"}), {"storyId", "content"})

CreateFanficChapterValid(input) ==
  /\ Has(input, "storyId") /\ ZStringMin1(input.storyId)
  /\ OptInt(input, "orderIndex")
  /\ OptString(input, "title")
  /\ OptString(input, "notes")
  /\ Has(input, "content") /\ ZStringMin1(input.content)

CreateFanficChapterRow(id, input, now) ==
  [id |-> id, storyId |-> input.storyId,
   orderIndex |-> IF Has(input, "orderIndex") THEN input.orderIndex ELSE 1,
   title |-> OrNull(input, "title"),
   notes |-> OrNull(input, "notes"),
   content |-> input.content,
   createdAt |-> now, updatedAt |-> now]

createFanficChapter(p, user, input) ==
  /\ Arrive(p)
  /\ IF ~CreateFanficChapterValid(input)
     THEN Finish(p, Err("createFanficChapter", user, input, "BAD_REQUEST"))
     ELSE IF requireUser(user) # "ok"
     THEN Finish(p, Err("createFanficChapter", user, input, requireUser(user)))
     ELSE IF getOwnedStory(input.storyId, user).code # "ok"
     THEN Finish(p, Err("createFanficChapter", user, input, getOwnedStory(input.storyId, user).code))
     ELSE Await(p, "createFanficChapter", user, input, "insert")
  /\ UNCHANGED <<store, History>>

createFanficChapter_insert(p) ==
  /\ At(p, "createFanficChapter", "insert")
  /\ LET user == inflight[p].user
         input == inflight[p].input
         used == {k[1] : k \in everChapters}
     IN /\ HasFree(NewChapterIds, used)
        /\ \E now \in Now, enforced \in BOOLEAN :
           LET chapter == CreateFanficChapterRow(First(NewChapterIds, used), input, now)
           IN IF StoryRefOk(enforced, chapter.storyId)
              THEN /\ FanficChapters' = FanficChapters \cup {chapter}
                   /\ everChapters' = everChapters \cup {<<chapter.id, chapter.storyId>>}
                   /\ Finish(p, Ok("createFanficChapter", user, input, {chapter}))
              ELSE /\ UNCHANGED <<FanficChapters, everChapters>>
                   /\ Finish(p, Err("createFanficChapter", user, input, "INTERNAL_SERVER_ERROR"))
  /\ UNCHANGED <<Fandoms, FanficStories, deleteOk>>

UpdateFanficChapterInputs ==
  AtMost(Ext(Ext(Ext(Ext(ChapterKeys, "orderIndex", {2}), "title", {"One"}),
                 "notes", {"wip"}), "content", {"", "Once"}), {"id", "storyId"})

\* UpdateFanficChapterValid without the refinement
UpdateFanficChapterValid_NoRefine(input) ==
  /\ Has(input, "id") /\ ZStringMin1(input.id)
  /\ Has(input, "storyId") /\ ZStringMin1(input.storyId)
  /\ OptInt(input, "orderIndex")
  /\ OptString(input, "title")
  /\ OptString(input, "notes")
  /\ OptString(input, "content")

UpdateFanficChapterValid(input) ==
  /\ Has(input, "id") /\ ZStringMin1(input.id)
  /\ Has(input, "storyId") /\ ZStringMin1(input.storyId)
  /\ OptInt(input, "orderIndex")
  /\ OptString(input, "title")
  /\ OptString(input, "notes")
  /\ OptString(input, "content")
  /\ \/ Has(input, "orderIndex") \/ Has(input, "title")
     \/ Has(input, "notes") \/ Has(input, "content")

UpdateFanficChapterSet(row, input, now) ==
  [row EXCEPT
     !.orderIndex = IF Has(input, "orderIndex") THEN input.orderIndex ELSE @,
     !.title = IF Has(input, "title") THEN input.title ELSE @,
     !.notes = IF Has(input, "notes") THEN input.notes ELSE @,
     !.content = IF Has(input, "content") THEN input.content ELSE @,
     !.updatedAt = now]

updateFanficChapter(p, user, input) ==
  /\ Arrive(p)
  /\ IF ~UpdateFanficChapterValid(input)
     THEN Finish(p, Err("updateFanficChapter", user, input, "BAD_REQUEST"))
     ELSE IF requireUser(user) # "ok"
     THEN Finish(p, Err("updateFanficChapter", user, input, requireUser(user)))
     ELSE IF getOwnedStory(input.storyId, user).code # "ok"
     THEN Finish(p, Err("updateFanficChapter", user, input, getOwnedStory(input.storyId, user).code))
     ELSE Await(p, "updateFanficChapter", user, input, "select")
  /\ UNCHANGED <<store, History>>

updateFanficChapter_select(p) ==
  /\ At(p, "updateFanficChapter", "select")
  /\ LET user == inflight[p].user
         input == inflight[p].input
         owned == getOwnedChapter(input.id, input.storyId)
     IN IF owned.code # "ok"
        THEN Finish(p, Err("updateFanficChapter", user, input, owned.code))
        ELSE Await(p, "updateFanficChapter", user, input, "update")
  /\ UNCHANGED <<store, History>>

\* db.update(FanficChapters).set(...).where(eq(id)).returning()
UpdateChapterResult(user, input, updated) == Ok("updateFanficChapter", user, input, updated)

updateFanficChapter_update(p) ==
  /\ At(p, "updateFanficChapter", "update")
  /\ \E now \in Now :
       LET input == inflight[p].input
           hit == {c \in FanficChapters : SqlEq(c.id, input.id)}
           updated == {UpdateFanficChapterSet(c, input, now) : c \in hit}
       IN /\ FanficChapters' = (FanficChapters \ hit) \cup updated
          /\ Finish(p, UpdateChapterResult(inflight[p].user, input, updated))
  /\ UNCHANGED <<Fandoms, FanficStories, History>>

DeleteFanficChapterValid(input) ==
  /\ Has(input, "id") /\ ZStringMin1(input.id)
  /\ Has(input, "storyId") /\ ZStringMin1(input.storyId)

deleteFanficChapter(p, user, input) ==
  /\ Arrive(p)
  /\ IF ~DeleteFanficChapterValid(input)
     THEN Finish(p, Err("deleteFanficChapter", user, input, "BAD_REQUEST"))
     ELSE IF requireUser(user) # "ok"
     THEN Finish(p, Err("deleteFanficChapter", user, input, requireUser(user)))
     ELSE IF getOwnedStory(input.storyId, user).code # "ok"
     THEN Finish(p, Err("deleteFanficChapter", user, input, getOwnedStory(input.storyId, user).code))
     ELSE Await(p, "deleteFanficChapter", user, input, "select")
  /\ UNCHANGED <<store, History>>

deleteFanficChapter_select(p) ==
  /\ At(p, "deleteFanficChapter", "select")
  /\ LET user == inflight[p].user
         input == inflight[p].input
         owned == getOwnedChapter(input.id, input.storyId)
     IN IF owned.code # "ok"
        THEN Finish(p, Err("deleteFanficChapter", user, input, owned.code))
        ELSE Await(p, "deleteFanficChapter", user, input, "delete")
  /\ UNCHANGED <<store, History>>

\* DeleteResult without the check of the affected rows
DeleteResult_NoCount(user, input, rowsAffected) ==
  Ok("deleteFanficChapter", user, input, {})

\* if (result.rowsAffected === 0) throw NOT_FOUND
DeleteResult(user, input, rowsAffected) ==
  IF rowsAffected = 0
  THEN Err("deleteFanficChapter", user, input, "NOT_FOUND")
  ELSE Ok("deleteFanficChapter", user, input, {})

deleteFanficChapter_delete(p) ==
  /\ At(p, "deleteFanficChapter", "delete")
  /\ LET input == inflight[p].input
         hit == {c \in FanficChapters : SqlEq(c.id, input.id)}
         result == DeleteResult(inflight[p].user, input, Cardinality(hit))
     IN /\ FanficChapters' = FanficChapters \ hit
        /\ Finish(p, result)
        /\ deleteOk' = IF result.code = "ok"
                       THEN [deleteOk EXCEPT ![input.id] = @ + 1]
                       ELSE deleteOk
  /\ UNCHANGED <<Fandoms, FanficStories, everChapters>>

-----------------------------------------------------------------------------
(* The seeded store and the specification *)

SeedFandom(id, userId, isSystem) ==
  [id |-> id, userId |-> userId, name |-> "Harry Potter", canonType |-> "books",
   description |-> Null, isSystem |-> isSystem, createdAt |-> 0, updatedAt |-> 0]

SeedFandoms ==
  { SeedFandom("f1", Null, TRUE), SeedFandom("f2", Null, FALSE),
    SeedFandom("f3", "u2", FALSE), SeedFandom("f4", "u2", TRUE) }

SeedStories ==
  { [id |-> "s1", userId |-> "u1", fandomId |-> "f1", title |-> "New Beginnings",
     summary |-> "first", rating |-> "G", pairing |-> Null, tags |-> "canon",
     status |-> Null, language |-> "en", createdAt |-> 0, updatedAt |-> 0] }

SeedChapters ==
  { [id |-> "c1", storyId |-> "s1", orderIndex |-> 1, title |-> "Prologue",
     notes |-> Null, content |-> "It began.", createdAt |-> 0, updatedAt |-> 0] }

Init ==
  /\ Fandoms = SeedFandoms
  /\ FanficStories = SeedStories
  /\ FanficChapters = SeedChapters
  /\ inflight = [p \in Requests |-> New]
  /\ ret = NoRet
  /\ everChapters = {<<c.id, c.storyId>> : c \in SeedChapters}
  /\ deleteOk = [c \in ChapterIds |-> 0]

Next ==
  \/ \E p \in Requests :
         \/ \E user \in Callers :
              \/ listFandoms(p, user)
              \/ \E input \in CreateFandomInputs : createFandom(p, user, input)
              \/ \E input \in UpdateFandomInputs : updateFandom(p, user, input)
              \/ listFanficStories(p, user)
              \/ \E input \in CreateFanficStoryInputs : createFanficStory(p, user, input)
              \/ \E input \in UpdateFanficStoryInputs : updateFanficStory(p, user, input)
              \/ \E input \in {[storyId |-> s] : s \in StoryIdInputs \cup {""}} :
                   listFanficChapters(p, user, input)
              \/ \E input \in CreateFanficChapterInputs : createFanficChapter(p, user, input)
              \/ \E input \in UpdateFanficChapterInputs : updateFanficChapter(p, user, input)
              \/ \E input \in ChapterKeys : deleteFanficChapter(p, user, input)
         \/ updateFandom_update(p)
         \/ createFanficStory_insert(p)
         \/ updateFanficStory_ensure(p)
         \/ updateFanficStory_update(p)
         \/ listFanficChapters_select(p)
         \/ createFanficChapter_insert(p)
         \/ updateFanficChapter_select(p)
         \/ updateFanficChapter_update(p)
         \/ deleteFanficChapter_select(p)
         \/ deleteFanficChapter_delete(p)

Spec == Init /\ [][Next]_vars

-----------------------------------------------------------------------------
(* Vocabulary of the properties *)

\* request p arrives in this step
Arrives(p) == inflight[p] = New /\ inflight'[p] # New

\* request p gets its response in this step: ret' is that response
Returns(p) == inflight[p] # Done /\ inflight'[p] = Done

Suspended(p) == inflight[p] # New /\ inflight[p] # Done

UpdateOps == {"updateFandom", "updateFanficStory", "updateFanficChapter"}

\* the operations that start with getOwnedStory on a caller-supplied story id
StoryScopedOps ==
  {"updateFanficStory", "listFanficChapters", "createFanficChapter",
   "updateFanficChapter", "deleteFanficChapter"}

\* the story id an input of a story-scoped operation names
StoryOf(op, key) == IF op = "updateFanficStory" THEN key.id ELSE key.storyId

OwnedBy(storyId, user) ==
  \E s \in FanficStories : s.id = storyId /\ s.userId = user

\* g agrees with f on every field outside fields
SameExcept(f, g, fields) == \A k \in DOMAIN f \ fields : g[k] = f[k]

-----------------------------------------------------------------------------
(* C1 *)

\* C1: a successful updateFandom by user U touches a fandom only if U owns it,
\* or it has no owner and is not flagged isSystem; an ownerless system fandom
\* and a fandom of another user are never modified.
C1_OnlyOwnerOrCommunity ==
  (ret.op = "updateFandom" /\ ret.code = "ok") =>
    \A f \in ret.rows :
      \/ f.userId = ret.user
      \/ (f.userId = Null /\ ~f.isSystem)

-----------------------------------------------------------------------------
(* C2 *)

C2_Step ==
  \A p \in Requests :
    \* no handler gets past getOwnedStory on a story its caller does not own
    /\ (inflight'[p] # New /\ inflight'[p] # Done /\ inflight'[p].op \in StoryScopedOps)
         => OwnedBy(StoryOf(inflight'[p].op, inflight'[p].input), inflight'[p].user)
    \* and the response is NOT_FOUND (unless validation rejected the input
    \* first), with no row returned and no row written, whether the story
    \* belongs to someone else or does not exist
    /\ (/\ Returns(p)
        /\ ret'.op \in StoryScopedOps
        /\ ret'.user \in Users
        /\ ~OwnedBy(StoryOf(ret'.op, ret'.key), ret'.user))
         => /\ Arrives(p)
            /\ ret'.code \in {"NOT_FOUND", "BAD_REQUEST"}
            /\ ret'.rows = {}
            /\ UNCHANGED <<store, History>>

\* C2: every story-scoped operation called by U on a story U does not own
\* fails with NOT_FOUND, exactly as for a story id that does not exist, and
\* writes nothing.
C2_ForeignStoryNotFound == [][C2_Step]_vars

\* u2 named u1's story s1 in createFanficChapter and got NOT_FOUND
C2_Witness ==
  /\ ret.op = "createFanficChapter"
  /\ ret.code = "NOT_FOUND"
  /\ ret.user = "u2"
  /\ ret.key.storyId = "s1"
  /\ OwnedBy("s1", "u1")

-----------------------------------------------------------------------------
(* C3 *)

\* C3: a story row returned by a successful createFanficStory or
\* updateFanficStory has a null fandomId or one that names an existing fandom
\* accessible to the caller.
C3_FandomIdAccessible ==
  (ret.op \in {"createFanficStory", "updateFanficStory"} /\ ret.code = "ok") =>
    \A s \in ret.rows :
      s.fandomId # Null => ensureFandomAccessible(s.fandomId, ret.user).code = "ok"

-----------------------------------------------------------------------------
(* C4 *)

\* C4: every stored fandom has a non-empty name, every stored story a
\* non-empty title, every stored chapter non-empty content.
C4_RequiredFieldsNonEmpty ==
  /\ \A f \in Fandoms : f.name # ""
  /\ \A s \in FanficStories : s.title # ""
  /\ \A c \in FanficChapters : c.content # ""

-----------------------------------------------------------------------------
(* C5 *)

C5_Step ==
  /\ \A c \in ChapterIds : deleteOk'[c] <= 1
  /\ \A p \in Requests :
       (/\ Returns(p)
        /\ Suspended(p)
        /\ inflight[p].op = "deleteFanficChapter"
        /\ <<inflight[p].input.id, inflight[p].input.storyId>> \in everChapters)
         => LET c == inflight[p].input.id
                present == \E r \in FanficChapters : r.id = c
            IN \/ /\ ret'.code = "ok"
                  /\ present
                  /\ ~\E r \in FanficChapters' : r.id = c
                  /\ deleteOk[c] = 0 /\ deleteOk'[c] = 1
               \/ /\ ret'.code = "NOT_FOUND"
                  /\ ~present
                  /\ deleteOk[c] = 1
                  /\ UNCHANGED <<store, History>>

\* C5: of the deleteFanficChapter calls on one chapter of an owned story,
\* sequential or racing past the ownership check, exactly one returns success
\* and removes the row; every other one fails with NOT_FOUND.
C5_DeleteExactlyOnce == [][C5_Step]_vars

\* one delete of c1 has returned success while another, which passed the
\* ownership check when c1 still existed, is about to run its delete statement
C5_Witness ==
  \E p \in Requests :
    /\ At(p, "deleteFanficChapter", "delete")
    /\ inflight[p].input.id = "c1"
    /\ deleteOk["c1"] = 1

-----------------------------------------------------------------------------
(* C6 *)

\* C6: no create or update returns success without the row it inserted or
\* updated; in particular updateFanficChapter does not return success when
\* its chapter is gone.
C6_SuccessCarriesRow ==
  (/\ ret.code = "ok"
   /\ ret.op \in UpdateOps \cup {"createFandom", "createFanficStory", "createFanficChapter"})
    => ret.rows # {}

-----------------------------------------------------------------------------
(* C7 *)

C7_Step ==
  \A p \in Requests :
    (/\ Returns(p)
     /\ Suspended(p)
     /\ inflight[p].op \in UpdateOps
     /\ ret'.code = "ok")
      => LET op == inflight[p].op
             input == inflight[p].input
             free == (DOMAIN input \ {"id", "storyId"}) \cup {"updatedAt"}
             Framed(T, T2) ==
               /\ \A r \in T : \E r2 \in T2 :
                    /\ r2.id = r.id
                    /\ IF r.id = input.id THEN SameExcept(r, r2, free) ELSE r2 = r
               /\ \A r2 \in T2 : \E r \in T : r.id = r2.id
         IN /\ IF op = "updateFandom"
               THEN Framed(Fandoms, Fandoms') ELSE Fandoms' = Fandoms
            /\ IF op = "updateFanficStory"
               THEN Framed(FanficStories, FanficStories') ELSE FanficStories' = FanficStories
            /\ IF op = "updateFanficChapter"
               THEN Framed(FanficChapters, FanficChapters') ELSE FanficChapters' = FanficChapters

\* C7: a successful update changes, on the row it names, only the fields its
\* input supplies and updatedAt; every other field and every other row of
\* every table is as before.
C7_PartialUpdateFrame == [][C7_Step]_vars

\* only title was supplied: the story came back with the new title and its
\* seeded summary and rating
C7_Witness ==
  /\ ret.op = "updateFanficStory"
  /\ ret.code = "ok"
  /\ \E s \in ret.rows : s.title = "Sequel" /\ s.summary = "first" /\ s.rating = "G"

-----------------------------------------------------------------------------
(* C8 *)

\* the response to request p is a validation error and nothing was written
Rejected(p) ==
  /\ inflight'[p] = Done
  /\ ret'.code = "BAD_REQUEST"
  /\ ret'.rows = {}
  /\ UNCHANGED <<store, History>>

C8_Step ==
  \A p \in Requests :
    Arrives(p) =>
      LET done == inflight'[p] = Done
          op == IF done THEN ret'.op ELSE inflight'[p].op
          user == IF done THEN ret'.user ELSE inflight'[p].user
          \* the input that names the same row and sets no optional field
          bare == IF done THEN ret'.key ELSE Key(inflight'[p].input)
      IN /\ (op = "updateFandom" /\ updateFandom(p, user, bare)) => Rejected(p)
         /\ (op = "updateFanficStory" /\ updateFanficStory(p, user, bare)) => Rejected(p)
         /\ (op = "updateFanficChapter" /\ updateFanficChapter(p, user, bare)) => Rejected(p)

\* C8: an update called with its id (and storyId) and no optional field fails
\* with a validation error in its first step, for every caller and every
\* target, and writes nothing.
C8_EmptyUpdateRejected == [][C8_Step]_vars

\* an anonymous updateFanficChapter naming the existing chapter c1 of s1 was
\* rejected by validation; every optional value the callers send is valid, so
\* the input set none
C8_Witness ==
  /\ ret.op = "updateFanficChapter"
  /\ ret.code = "BAD_REQUEST"
  /\ ret.user = Anonymous
  /\ ret.key = [id |-> "c1", storyId |-> "s1"]
  /\ \E c \in FanficChapters : c.id = "c1" /\ c.storyId = "s1"

-----------------------------------------------------------------------------
(* C9 *)

C9_Check ==
  /\ \A f \in Fandoms : \A v \in Users :
       LET access == ensureFandomAccessible(f.id, v)
       IN IF f.userId # Null /\ f.userId # v /\ ~f.isSystem
          THEN access.code = "FORBIDDEN"
          ELSE access.code = "ok" /\ access.row = f
  /\ \A id \in FandomIdInputs : \A v \in Users :
       (~\E f \in Fandoms : f.id = id) =>
         ensureFandomAccessible(id, v).code = "NOT_FOUND"

\* a step that only runs the check: the one of updateFanficStory, and the
\* arrivals of updateFandom and createFanficStory that end in it
C9_CheckStep(p) ==
  \/ /\ At(p, "updateFanficStory", "ensure")
     /\ inflight'[p] # inflight[p]
  \/ /\ Arrives(p)
     /\ inflight'[p] # Done
     /\ inflight'[p].op \in {"updateFandom", "createFanficStory"}
  \/ /\ Arrives(p)
     /\ inflight'[p] = Done
     /\ ret'.op \in {"updateFandom", "createFanficStory"}
     /\ ret'.code \in {"FORBIDDEN", "NOT_FOUND"}

\* C9: the accessibility check of an existing fandom f for user V fails with
\* FORBIDDEN exactly when f has an owner other than V and is not a system
\* fandom, and returns f otherwise; it fails with NOT_FOUND for an id no
\* fandom has; it never modifies the store.
C9_Accessibility ==
  /\ []C9_Check
  /\ [][\A p \in Requests : C9_CheckStep(p) => UNCHANGED store]_vars

\* u1 named a private fandom of u2 in createFanficStory and was refused
C9_Witness ==
  /\ ret.op = "createFanficStory"
  /\ ret.code = "FORBIDDEN"
  /\ ret.user = "u1"
  /\ \E f \in Fandoms : f.userId = "u2" /\ ~f.isSystem

-----------------------------------------------------------------------------
(* C10 *)

C10_Step ==
  /\ \A f \in Fandoms : \E g \in Fandoms' :
       g.id = f.id /\ g.userId = f.userId /\ g.isSystem = f.isSystem
  /\ \A s \in FanficStories : \E t \in FanficStories' :
       t.id = s.id /\ t.userId = s.userId
  /\ \A c \in FanficChapters : \A d \in FanficChapters' :
       d.id = c.id => d.storyId = c.storyId
  /\ \A p \in Requests :
       (/\ Returns(p)
        /\ Suspended(p)
        /\ inflight[p].op \in {"updateFanficChapter", "deleteFanficChapter"}
        /\ ret'.code = "ok")
         => \A c \in FanficChapters \ FanficChapters' :
              OwnedBy(c.storyId, inflight[p].user)

\* C10: no operation changes a story's userId, a chapter's storyId or a
\* fandom's userId or isSystem, and none removes a story or a fandom; so a
\* chapter updated or deleted successfully by U belongs to a story of U.
C10_OwnershipStable == [][C10_Step]_vars

\* u1 updated chapter c1 of their story s1
C10_Witness ==
  /\ ret.op = "updateFanficChapter"
  /\ ret.code = "ok"
  /\ ret.user = "u1"
  /\ \E c \in ret.rows : c.id = "c1" /\ c.storyId = "s1" /\ c.updatedAt > 0
  /\ OwnedBy("s1", "u1")

====
